---- MODULE Spec2Model ----
(***************************************************************************)
(* Model of CertificateService's browser pool and PDF render path          *)
(* (src/src/modules/certificate/certificate.service.ts).                   *)
(*                                                                         *)
(* Node.js runs one callback at a time: every action below is the code     *)
(* that runs between two awaits (the synchronous part of a call, or the    *)
(* continuation of one await), or one step of the browser engine / timer   *)
(* subsystem the code waits on.                                            *)
(***************************************************************************)
EXTENDS Naturals, FiniteSets, Sequences

\* ---- bounds --------------------------------------------------------------
NumCallers == 2      \* concurrent renderPDFFromHTML requests
MaxCalls == 2        \* renderPDFFromHTML calls over a run
MaxReapers == 1      \* idle callbacks awaiting close() of one browser at a time
MaxLen == 3          \* pieces of a fetched document
MaxPasses == 2       \* applications of the HTML preprocessing to one document

Callers == 1..NumCallers
\* a call launches at most one browser; browser b comes from launch b
Launches == 1..MaxCalls

VARIABLES
  browserInstance,       \* this.browserInstance: 0 is null, else a browser id
  browserLaunchPromise,  \* this.browserLaunchPromise: 0 is null, else a launch id
  browserIdleTimeout,    \* this.browserIdleTimeout: "null", or a handle to a "live" or "dead" timer
  timers,                \* number of armed timers that have neither fired nor been cleared
  launch,                \* launch[l]: state of the promise returned by launchBrowser() call l
  browser,               \* browser[b]: the engine process and its connection
  reapers,               \* reapers[b]: idle callbacks suspended in `await browserInstance.close()` on b
  shutdownPc,            \* onModuleDestroy: 0 when not running, else the browser whose close() it awaits
  destroyed,             \* browsers on which an onModuleDestroy() that has returned called close()
  quiet,                 \* onModuleDestroy has returned and getBrowserInstance was not called since
  callers,               \* callers[c]: position and locals of request c
  calls,                 \* number of renderPDFFromHTML calls so far
  input,                 \* the document as fetched (response.data), a sequence of pieces
  htmlContent,           \* the `htmlContent` local of renderPDFFromHTML
  passes                 \* number of times the preprocessing was applied to htmlContent

vars == <<browserInstance, browserLaunchPromise, browserIdleTimeout, timers, launch,
          browser, reapers, shutdownPc, destroyed, quiet, callers, calls,
          input, htmlContent, passes>>

docVars == <<input, htmlContent, passes>>

poolVars == <<browserInstance, browserLaunchPromise, browserIdleTimeout, timers, launch,
              browser, reapers, shutdownPc, destroyed, quiet>>

\* A request that is not running and has not run yet.
\*   joined   the launch whose promise getBrowserInstance awaited (0: none)
\*   browser  the `browser` local (0: not assigned)
\*   page     the `page` local: "null" or "held"
\*   ctx      the page the call opened: "none", "open", or "closeCalled"
\*   err      the error caught by the catch block
\*   res      how the last call ended: "pdf", or the error it threw
IdleCaller ==
  [pc |-> "idle", joined |-> 0, browser |-> 0, page |-> "null", ctx |-> "none",
   err |-> "none", cleanupFailed |-> FALSE, res |-> "none"]

PoolInit ==
  /\ browserInstance = 0
  /\ browserLaunchPromise = 0
  /\ browserIdleTimeout = "null"
  /\ timers = 0
  /\ launch = [l \in Launches |-> "none"]
  /\ browser = [b \in Launches |-> [status |-> "none", connected |-> FALSE]]
  /\ reapers = [b \in Launches |-> 0]
  /\ shutdownPc = 0
  /\ destroyed = {}
  /\ quiet = FALSE
  /\ callers = [c \in Callers |-> IdleCaller]
  /\ calls = 0

\* the pool and render-path model leaves the content of the documents out
Init ==
  /\ PoolInit
  /\ input = <<>>
  /\ htmlContent = <<>>
  /\ passes = 0

\* ---- helpers -------------------------------------------------------------

\* this.browserInstance && this.browserInstance.isConnected()
InstanceConnected == browserInstance # 0 /\ browser[browserInstance].connected

LaunchInFlight_Never == FALSE
\* if (this.browserLaunchPromise)
LaunchInFlight == browserLaunchPromise # 0

\* the id the next launchBrowser() call gets
NextLaunch == Cardinality({l \in Launches : launch[l] # "none"}) + 1

\* Browser.close() called on b: an open browser starts closing
CloseCalled(b) ==
  [browser EXCEPT ![b].status = IF @ = "open" THEN "closing" ELSE @]

\* `await browser.close()` can return once the engine is gone; it can throw at any time
CloseReturns(b, ok) == ok => browser[b].status \in {"closed", "crashed"}

ResetIdle_OnlyIfUnarmed ==
  /\ browserIdleTimeout' = IF browserIdleTimeout = "null" THEN "live" ELSE browserIdleTimeout
  /\ timers' = IF browserIdleTimeout = "null" THEN timers + 1 ELSE timers

ResetIdle_NoClear ==
  /\ browserIdleTimeout' = "live"
  /\ timers' = timers + 1

\* resetBrowserIdleTimeout(): clearTimeout of the held handle, then setTimeout
ResetIdle ==
  /\ browserIdleTimeout' = "live"
  /\ timers' = (IF browserIdleTimeout = "live" THEN timers - 1 ELSE timers) + 1

\* request c changes its record to r
Move(c, r) == callers' = [callers EXCEPT ![c] = r] /\ UNCHANGED <<calls, docVars>>

\* the call of request c ends with result r (the exported pdf, or the error thrown)
Ended(c, r, cleanupFailed) ==
  [IdleCaller EXCEPT !.res = r, !.ctx = callers[c].ctx, !.err = callers[c].err,
                     !.cleanupFailed = cleanupFailed]

\* ---- renderPDFFromHTML: the upstream fetch -------------------------------

\* a request arrives: renderPDFFromHTML runs up to `await axios.get(...)`
RenderCall(c) ==
  /\ callers[c].pc = "idle"
  /\ calls < MaxCalls
  /\ calls' = calls + 1
  /\ callers' = [callers EXCEPT ![c] = [IdleCaller EXCEPT !.pc = "fetch"]]
  /\ UNCHANGED <<poolVars, docVars>>

FetchFailPool_AcquiredFirst ==
  /\ ResetIdle
  /\ UNCHANGED <<browserInstance, browserLaunchPromise, launch, browser, reapers,
                 shutdownPc, destroyed, quiet>>
\* what a failed fetch does to the pool: nothing, getBrowserInstance() is only
\* called after axios.get has resolved
FetchFailPool == UNCHANGED poolVars

\* axios.get rejects (or times out after 10 s): the catch block rethrows
FetchFail(c) ==
  /\ callers[c].pc = "fetch"
  /\ Move(c, [Ended(c, "fetch", FALSE) EXCEPT !.err = "fetch"])
  /\ FetchFailPool

\* ---- getBrowserInstance --------------------------------------------------

\* The part of getBrowserInstance() that runs synchronously in its caller.
getBrowserInstance(c) ==
  /\ quiet' = FALSE
  /\ IF InstanceConnected
       THEN \* fast path: rearm the idle timer and return the instance
            /\ ResetIdle
            /\ Move(c, [callers[c] EXCEPT !.pc = "acquired", !.browser = browserInstance])
            /\ UNCHANGED <<browserInstance, browserLaunchPromise, launch>>
       ELSE IF LaunchInFlight
       THEN \* return this.browserLaunchPromise
            /\ Move(c, [callers[c] EXCEPT !.pc = "awaitTicket",
                                           !.joined = browserLaunchPromise])
            /\ UNCHANGED <<browserInstance, browserLaunchPromise, launch,
                           browserIdleTimeout, timers>>
       ELSE \* this.browserLaunchPromise = this.launchBrowser(); then await it
            /\ launch' = [launch EXCEPT ![NextLaunch] = "pending"]
            /\ browserLaunchPromise' = NextLaunch
            /\ Move(c, [callers[c] EXCEPT !.pc = "awaitLaunch", !.joined = NextLaunch])
            /\ UNCHANGED <<browserInstance, browserIdleTimeout, timers>>
  /\ UNCHANGED <<browser, reapers, shutdownPc, destroyed>>

\* axios.get resolves: the html is preprocessed and getBrowserInstance() is called
FetchOk(c) ==
  /\ callers[c].pc = "fetch"
  /\ getBrowserInstance(c)

\* launchBrowser(): puppeteer.launch resolves with a new browser, or rejects
\* (a launch error, or the 30 s launch timeout); the catch logs and rethrows
launchBrowser(l, ok) ==
  /\ launch[l] = "pending"
  /\ launch' = [launch EXCEPT ![l] = IF ok THEN "resolved" ELSE "rejected"]
  /\ browser' = IF ok THEN [browser EXCEPT ![l] = [status |-> "open", connected |-> TRUE]]
                      ELSE browser
  /\ UNCHANGED <<browserInstance, browserLaunchPromise, browserIdleTimeout, timers,
                 reapers, shutdownPc, destroyed, quiet, callers, calls, docVars>>

\* the caller that started the launch resumes from `await this.browserLaunchPromise`
OwnerResume(c) ==
  /\ callers[c].pc = "awaitLaunch"
  /\ launch[callers[c].joined] \in {"resolved", "rejected"}
  /\ browserLaunchPromise' = 0                       \* finally
  /\ IF launch[callers[c].joined] = "resolved"
       THEN /\ browserInstance' = callers[c].joined
            /\ ResetIdle
            /\ Move(c, [callers[c] EXCEPT !.pc = "acquired", !.browser = browserInstance'])
       ELSE /\ Move(c, [Ended(c, "launch", FALSE) EXCEPT !.err = "launch",
                                                         !.joined = callers[c].joined])
            /\ UNCHANGED <<browserInstance, browserIdleTimeout, timers>>
  /\ UNCHANGED <<launch, browser, reapers, shutdownPc, destroyed, quiet>>

\* a caller that was handed the launch promise resumes with its outcome
WaiterResume(c) ==
  /\ callers[c].pc = "awaitTicket"
  /\ launch[callers[c].joined] \in {"resolved", "rejected"}
  /\ IF launch[callers[c].joined] = "resolved"
       THEN Move(c, [callers[c] EXCEPT !.pc = "acquired", !.browser = callers[c].joined])
       ELSE Move(c, [Ended(c, "launch", FALSE) EXCEPT !.err = "launch",
                                                      !.joined = callers[c].joined])
  /\ UNCHANGED poolVars

\* ---- the idle timer ------------------------------------------------------

\* An armed timer fires after MAX_BROWSER_IDLE_TIME: the callback runs up to
\* `await this.browserInstance.close()`, or to its end when there is no instance.
IdleTimeoutFires ==
  /\ timers > 0
  /\ timers' = timers - 1
  /\ browserIdleTimeout' \in
       IF browserIdleTimeout = "live"
         THEN (IF timers = 1 THEN {"dead"} ELSE {"dead", "live"})
         ELSE {browserIdleTimeout}
  /\ IF browserInstance # 0
       THEN /\ reapers[browserInstance] < MaxReapers
            /\ browser' = CloseCalled(browserInstance)
            /\ reapers' = [reapers EXCEPT ![browserInstance] = @ + 1]
       ELSE UNCHANGED <<browser, reapers>>
  /\ UNCHANGED <<browserInstance, browserLaunchPromise, launch, shutdownPc,
                 destroyed, quiet, callers, calls, docVars>>

SlotAfterIdleClose_KeptOnError(ok) == IF ok THEN 0 ELSE browserInstance
\* finally { this.browserInstance = null }: the slot is cleared whether close()
\* returned or threw
SlotAfterIdleClose(ok) == 0

\* the idle callback resumes from close() (returned, or threw and was logged)
IdleCloseReturns(b, ok) ==
  /\ reapers[b] > 0
  /\ CloseReturns(b, ok)
  /\ reapers' = [reapers EXCEPT ![b] = @ - 1]
  /\ browserInstance' = SlotAfterIdleClose(ok)
  /\ UNCHANGED <<browserLaunchPromise, browserIdleTimeout, timers, launch, browser,
                 shutdownPc, destroyed, quiet, callers, calls, docVars>>

\* ---- onModuleDestroy -----------------------------------------------------

\* onModuleDestroy() runs up to `await this.browserInstance.close()`, or returns
onModuleDestroy ==
  /\ shutdownPc = 0
  /\ IF browserIdleTimeout = "live"                  \* clearTimeout
       THEN timers' = timers - 1 /\ browserIdleTimeout' = "dead"
       ELSE UNCHANGED <<timers, browserIdleTimeout>>
  /\ IF browserInstance # 0
       THEN /\ browser' = CloseCalled(browserInstance)
            /\ shutdownPc' = browserInstance
            /\ UNCHANGED quiet
       ELSE /\ quiet' = TRUE
            /\ UNCHANGED <<browser, shutdownPc>>
  /\ UNCHANGED <<browserInstance, browserLaunchPromise, launch, reapers, destroyed,
                 callers, calls, docVars>>

\* onModuleDestroy resumes from close() (returned, or threw and was logged) and returns
DestroyCloseReturns(ok) ==
  /\ shutdownPc # 0
  /\ CloseReturns(shutdownPc, ok)
  /\ shutdownPc' = 0
  /\ destroyed' = destroyed \cup {shutdownPc}
  /\ quiet' = TRUE
  /\ UNCHANGED <<browserInstance, browserLaunchPromise, browserIdleTimeout, timers,
                 launch, browser, reapers, callers, calls, docVars>>

\* ---- the browser engine --------------------------------------------------

\* a browser that was asked to close exits
BrowserExits(b) ==
  /\ browser[b].status = "closing"
  /\ browser' = [browser EXCEPT ![b] = [status |-> "closed", connected |-> FALSE]]
  /\ UNCHANGED <<browserInstance, browserLaunchPromise, browserIdleTimeout, timers,
                 launch, reapers, shutdownPc, destroyed, quiet, callers, calls, docVars>>

\* the connection of a closing browser drops before close() has returned
ConnectionDrops(b) ==
  /\ browser[b].status = "closing"
  /\ browser[b].connected
  /\ browser' = [browser EXCEPT ![b].connected = FALSE]
  /\ UNCHANGED <<browserInstance, browserLaunchPromise, browserIdleTimeout, timers,
                 launch, reapers, shutdownPc, destroyed, quiet, callers, calls, docVars>>

\* an open browser crashes: the process is gone and isConnected() turns false
BrowserCrashes(b) ==
  /\ browser[b].status = "open"
  /\ browser' = [browser EXCEPT ![b] = [status |-> "crashed", connected |-> FALSE]]
  /\ UNCHANGED <<browserInstance, browserLaunchPromise, browserIdleTimeout, timers,
                 launch, reapers, shutdownPc, destroyed, quiet, callers, calls, docVars>>

\* ---- renderPDFFromHTML: the page -----------------------------------------

\* a page operation can succeed only while the engine process is running
EngineRuns(b) == browser[b].status \in {"open", "closing"}

CatchClosesPage_Never(c) == FALSE
\* catch: if (page) { try { await page.close() } ... }
CatchClosesPage(c) == callers[c].page = "held"

Thrown_CloseError(e, closeError) == IF closeError # "none" THEN closeError ELSE e
\* catch: `throw error` rethrows the error that entered the catch block;
\* closeError is only logged
Thrown(e, closeError) == e

CatchPool_ClosesBrowser(c) ==
  /\ browser' = CloseCalled(callers[c].browser)
  /\ browserInstance' = 0
  /\ UNCHANGED <<browserLaunchPromise, browserIdleTimeout, timers, launch, reapers,
                 shutdownPc, destroyed, quiet>>
\* what the catch block does to the pool when a page operation threw: nothing,
\* only the page is closed and the browser is kept for reuse
CatchPool(c) == UNCHANGED poolVars

\* an awaited operation on the browser or the page throws e: the catch block logs
\* it and runs up to `await page.close()`, or rethrows at once when there is no page
Throws(c, e) ==
  /\ IF CatchClosesPage(c)
       THEN Move(c, [callers[c] EXCEPT !.pc = "cleanup", !.err = e, !.ctx = "closeCalled",
                                      !.browser = 0, !.joined = 0])
       ELSE Move(c, [Ended(c, e, FALSE) EXCEPT !.err = e])
  /\ CatchPool(c)

\* an awaited operation returns and the call runs up to the next await
Continues(c, r) == Move(c, r) /\ UNCHANGED poolVars

\* page = await browser.newPage(); page.setDefaultTimeout(30000);
\* await page.setViewport(...): either await can throw
NewPage(c, outcome) ==
  /\ callers[c].pc = "acquired"
  /\ outcome = "ok" => EngineRuns(callers[c].browser)
  /\ CASE outcome = "ok" ->
            Continues(c, [callers[c] EXCEPT !.pc = "content", !.page = "held",
                                            !.ctx = "open", !.joined = 0])
       [] outcome = "newPage" ->
            Throws(c, "newPage")
       [] outcome = "viewport" ->
            /\ Move(c, [callers[c] EXCEPT !.pc = "viewport", !.page = "held",
                                          !.ctx = "open", !.joined = 0])
            /\ UNCHANGED poolVars

\* await page.setViewport(...) throws on the page just opened
SetViewportFails(c) ==
  /\ callers[c].pc = "viewport"
  /\ Throws(c, "viewport")

\* await page.setContent(html, {waitUntil: 'networkidle0', timeout: 30000})
SetContent(c, ok) ==
  /\ callers[c].pc = "content"
  /\ ok => EngineRuns(callers[c].browser)
  /\ IF ok THEN Continues(c, [callers[c] EXCEPT !.pc = "fonts"])
           ELSE Throws(c, "content")

\* await page.evaluateHandle(() => document.fonts.ready)
FontsReady(c, ok) ==
  /\ callers[c].pc = "fonts"
  /\ ok => EngineRuns(callers[c].browser)
  /\ IF ok THEN Continues(c, [callers[c] EXCEPT !.pc = "pdf"])
           ELSE Throws(c, "fonts")

\* await Promise.race([page.pdf(...), <reject after 30 s>]): the race is won by the
\* pdf ("ok": the call goes on and calls page.close()), by a rejection of
\* page.pdf() ("export"), or by the 30 s timer ("exportTimeout")
ExportPdf(c, outcome) ==
  /\ callers[c].pc = "pdf"
  /\ outcome = "ok" => EngineRuns(callers[c].browser)
  /\ IF outcome = "ok" THEN Continues(c, [callers[c] EXCEPT !.pc = "close",
                                                            !.ctx = "closeCalled"])
                       ELSE Throws(c, outcome)

\* the call resumes from `await page.close()` of the try block: page = null and
\* return new StreamableFile(pdfBuffer), or close() threw into the catch block
ClosePage(c, ok) ==
  /\ callers[c].pc = "close"
  /\ IF ok THEN Continues(c, Ended(c, "pdf", FALSE))
           ELSE Throws(c, "close")

\* the catch block resumes from its own page.close() (returned, or threw and
\* was logged) and rethrows
CleanupReturns(c, ok) ==
  /\ callers[c].pc = "cleanup"
  /\ Move(c, Ended(c, Thrown(callers[c].err, IF ok THEN "none" ELSE "cleanup"), ~ok))
  /\ UNCHANGED poolVars

\* ---- the specification ---------------------------------------------------

Next ==
  \/ \E c \in Callers : RenderCall(c)
  \/ \E c \in Callers : FetchFail(c)
  \/ \E c \in Callers : FetchOk(c)
  \/ \E l \in Launches, ok \in BOOLEAN : launchBrowser(l, ok)
  \/ \E c \in Callers : OwnerResume(c)
  \/ \E c \in Callers : WaiterResume(c)
  \/ IdleTimeoutFires
  \/ \E b \in Launches, ok \in BOOLEAN : IdleCloseReturns(b, ok)
  \/ onModuleDestroy
  \/ \E ok \in BOOLEAN : DestroyCloseReturns(ok)
  \/ \E b \in Launches : BrowserExits(b)
  \/ \E b \in Launches : ConnectionDrops(b)
  \/ \E b \in Launches : BrowserCrashes(b)
  \/ \E c \in Callers, outcome \in {"ok", "newPage", "viewport"} : NewPage(c, outcome)
  \/ \E c \in Callers : SetViewportFails(c)
  \/ \E c \in Callers, ok \in BOOLEAN : SetContent(c, ok)
  \/ \E c \in Callers, ok \in BOOLEAN : FontsReady(c, ok)
  \/ \E c \in Callers, outcome \in {"ok", "export", "exportTimeout"} : ExportPdf(c, outcome)
  \/ \E c \in Callers, ok \in BOOLEAN : ClosePage(c, ok)
  \/ \E c \in Callers, ok \in BOOLEAN : CleanupReturns(c, ok)

Spec == Init /\ [][Next]_vars

\* The steps that are sure to happen once they can: the continuation of a settled
\* promise, and the end of an await that the code bounds by a deadline (axios.get
\* timeout 10000; puppeteer.launch timeout 30000; setContent timeout 30000;
\* page.pdf raced against a 30 s timer).  browser.newPage(), page.setViewport(),
\* the wait for document.fonts.ready and page.close() are awaited with no deadline.
Fairness ==
  /\ \A c \in Callers : WF_vars(FetchOk(c) \/ FetchFail(c))
  /\ \A l \in Launches : WF_vars(\E ok \in BOOLEAN : launchBrowser(l, ok))
  /\ \A c \in Callers : WF_vars(OwnerResume(c))
  /\ \A c \in Callers : WF_vars(WaiterResume(c))
  /\ \A c \in Callers : WF_vars(\E ok \in BOOLEAN : SetContent(c, ok))
  /\ \A c \in Callers :
       WF_vars(\E outcome \in {"ok", "export", "exportTimeout"} : ExportPdf(c, outcome))

FairSpec == Spec /\ Fairness

\* ---- renderPDFFromHTML: the HTML preprocessing ---------------------------
\* A document is a sequence of pieces: the three tags the code searches for, a
\* run of text holding the word charset, a run holding one of the two font
\* markers, or any other text.  The strings the code inserts are pieces too.

Pieces == {"<html>", "<head>", "</head>", "charset", "fonts.googleapis.com",
           "@font-face", "text"}

Docs == UNION {[1..n -> Pieces] : n \in 0..MaxLen}

\* '<meta charset="UTF-8">'
Meta == "<meta charset=UTF-8>"

\* the template literal of lines 527-536: three <link> elements to
\* fonts.googleapis.com / fonts.gstatic.com and a <style> element
fontInjection == "<link href=https://fonts.googleapis.com/...><style>...</style>"

Contains_InjectionUnmarked(piece, needle) ==
  \/ piece = needle
  \/ needle = "charset" /\ piece = Meta
\* the text of piece has needle as a substring
Contains(piece, needle) ==
  \/ piece = needle
  \/ needle = "charset" /\ piece = Meta
  \/ needle = "fonts.googleapis.com" /\ piece = fontInjection

\* String.prototype.includes
includes(html, needle) == \E i \in 1..Len(html) : Contains(html[i], needle)

\* String.prototype.replace with a string pattern: the first occurrence only.
\* The patterns the code uses are tags, which are whole pieces.
replace(html, tag, new) ==
  LET hits == {i \in 1..Len(html) : html[i] = tag}
  IN  IF hits = {} THEN html
      ELSE LET i == CHOOSE h \in hits : \A j \in hits : h <= j
           IN  SubSeq(html, 1, i - 1) \o new \o SubSeq(html, i + 1, Len(html))

\* lines 539-545 and 562-568: the charset declaration goes into the head
EnsureCharset(html) ==
  IF ~includes(html, "charset")
  THEN IF includes(html, "</head>") THEN replace(html, "</head>", <<Meta, "</head>">>)
       ELSE IF includes(html, "<head>") THEN replace(html, "<head>", <<"<head>", Meta>>)
       ELSE html
  ELSE html

\* lines 548-559: the fonts go into the head, or into a head that is added
InjectFonts(html) ==
  IF includes(html, "</head>") THEN replace(html, "</head>", <<fontInjection, "</head>">>)
  ELSE IF includes(html, "<head>") THEN replace(html, "<head>", <<"<head>", fontInjection>>)
  ELSE IF ~includes(html, "<html>")
       THEN <<"<html>", "<head>", Meta, fontInjection, "</head>", "<body>">> \o html
              \o <<"</body>", "</html>">>
       ELSE replace(html, "<html>", <<"<html>", "<head>", Meta, fontInjection, "</head>">>)

\* lines 525-569
Preprocess(html) ==
  IF ~includes(html, "fonts.googleapis.com") /\ ~includes(html, "@font-face")
  THEN InjectFonts(EnsureCharset(html))
  ELSE EnsureCharset(html)

\* a document has been fetched and the preprocessing has not run yet
PreInit ==
  /\ PoolInit
  /\ input \in Docs
  /\ htmlContent = input
  /\ passes = 0

\* the preprocessing is applied to htmlContent
PreprocessStep ==
  /\ passes < MaxPasses
  /\ htmlContent' = Preprocess(htmlContent)
  /\ passes' = passes + 1
  /\ UNCHANGED <<poolVars, callers, calls, input>>

PreNext == PreprocessStep

PreSpec == PreInit /\ [][PreNext]_vars

\* ---- vocabulary of the claims --------------------------------------------

\* launched engine processes that have not exited
LiveInstances == {b \in Launches : browser[b].status \in {"open", "closing"}}

\* launches that were started and have not settled
PendingLaunches == {l \in Launches : launch[l] = "pending"}

\* errors thrown by an operation on the page of a call
RenderErrors == {"viewport", "content", "fonts", "export", "exportTimeout", "close"}

\* nothing is scheduled or suspended in the pool: no armed timer, no idle callback
\* or onModuleDestroy awaiting close(), no launch or getBrowserInstance in flight
PoolQuiescent ==
  /\ timers = 0
  /\ \A b \in Launches : reapers[b] = 0
  /\ shutdownPc = 0
  /\ PendingLaunches = {}
  /\ \A c \in Callers : callers[c].pc \notin {"awaitLaunch", "awaitTicket"}

\* ---- claims --------------------------------------------------------------

\* C1: calls of getBrowserInstance made while no instance is held share one launch:
\* at most one launch is unsettled at any time, every caller suspended on an
\* unsettled launch is suspended on the pool's one ticket, and every caller gets the
\* outcome of the launch it joined (that launch's browser, or that launch's failure).
C1_SingleFlight ==
  /\ Cardinality(PendingLaunches) <= 1
  /\ \A c \in Callers :
       /\ (callers[c].pc \in {"awaitLaunch", "awaitTicket"}
             /\ launch[callers[c].joined] = "pending")
            => browserLaunchPromise = callers[c].joined
       /\ (callers[c].pc = "acquired" /\ callers[c].joined # 0)
            => (launch[callers[c].joined] = "resolved"
                  /\ callers[c].browser = callers[c].joined)
       /\ callers[c].res = "launch" => launch[callers[c].joined] = "rejected"

\* two callers joined the only launch there was and both hold its browser
C1_Witness ==
  \E c1, c2 \in Callers :
    /\ c1 # c2
    /\ callers[c1].pc = "acquired" /\ callers[c2].pc = "acquired"
    /\ callers[c1].joined = 1 /\ callers[c2].joined = 1
    /\ callers[c1].browser = callers[c2].browser
    /\ NextLaunch = 2

\* C2 (as claimed): at most one launched instance that has not fully closed exists.
C2_AtMostOneInstance == Cardinality(LiveInstances) <= 1

\* C3 (as claimed): once the idle window after the last successful acquisition has
\* run out (no timer is armed any more, nothing is in flight) and onModuleDestroy
\* took no part, every launched instance has been closed and the instance slot is
\* cleared.
C3_IdleInstanceReaped ==
  (PoolQuiescent /\ ~quiet /\ destroyed = {})
    => (browserInstance = 0 /\ \A b \in Launches : browser[b].status # "open")

\* C4 (as claimed): onModuleDestroy never calls close() on an instance that an
\* earlier onModuleDestroy call already called close() on.
C4_NoDoubleClose == shutdownPc # 0 => shutdownPc \notin destroyed

\* C5 (as claimed): from the return of onModuleDestroy until the next
\* getBrowserInstance call the instance slot is cleared, no instance is open and
\* no idle timer is armed.
C5_EmptyAfterShutdown ==
  quiet => (browserInstance = 0 /\ timers = 0
              /\ \A b \in Launches : browser[b].status # "open")

\* C6: when a render call has returned or thrown, close() has been called on the
\* page it opened, whatever the exit path.
C6_PageAlwaysClosed ==
  \A c \in Callers : callers[c].pc = "idle" => callers[c].ctx # "open"

\* a call ended by the export timeout, after close() was called on its page
C6_Witness ==
  \E c \in Callers :
    /\ callers[c].pc = "idle"
    /\ callers[c].res = "exportTimeout"
    /\ callers[c].ctx = "closeCalled"

\* C7: no step a render call takes after it acquired the instance (page
\* operations, their failures, the cleanup) changes the instance slot, the launch
\* ticket or the open/closed status of any instance.
C7_FailedRenderKeepsInstance ==
  [][\A c \in Callers :
       (callers[c].pc \in {"acquired", "viewport", "content", "fonts", "pdf", "close",
                           "cleanup"}
          /\ callers'[c] # callers[c])
         => UNCHANGED <<browserInstance, browserLaunchPromise, browser>>]_vars

\* a call failed on the page while the one instance ever launched is still held,
\* open and connected, and the other call got it without a launch
C7_Witness ==
  \E c1, c2 \in Callers :
    /\ callers[c1].pc = "idle" /\ callers[c1].res \in {"content", "exportTimeout"}
    /\ callers[c2].pc = "acquired" /\ callers[c2].joined = 0
    /\ callers[c2].browser = browserInstance
    /\ browser[browserInstance].status = "open"
    /\ NextLaunch = 2

\* C8 (as claimed): a call whose export succeeded and whose page.close() then
\* threw still returns the pdf.
C8_CloseFailureStillReturnsPdf ==
  \A c \in Callers :
    (callers[c].pc = "idle" /\ callers[c].err = "close") => callers[c].res = "pdf"

\* C9: a call that failed on the page and whose cleanup close() failed too throws
\* the error that entered the catch block, never the cleanup failure.
C9_CleanupNeverMasksFailure ==
  \A c \in Callers :
    (callers[c].pc = "idle" /\ callers[c].cleanupFailed)
      => (callers[c].res = callers[c].err /\ callers[c].res \in RenderErrors)

\* a content-load failure whose cleanup close() failed as well
C9_Witness ==
  \E c \in Callers :
    /\ callers[c].pc = "idle"
    /\ callers[c].cleanupFailed
    /\ callers[c].res = "content"

\* C10 (as claimed): after the latest launch failed and its ticket was cleared, no
\* instance is held, no ticket is left, and every caller that joined that launch
\* and has resumed got the launch failure.
C10_LaunchFailureLeavesEmpty ==
  \A l \in Launches :
    (launch[l] = "rejected" /\ NextLaunch = l + 1 /\ browserLaunchPromise # l)
      => /\ browserInstance = 0
         /\ browserLaunchPromise = 0
         /\ \A c \in Callers :
              (callers[c].joined = l /\ callers[c].pc = "idle") => callers[c].res = "launch"

\* C11 (as claimed): a failure of the font-readiness wait alone never makes a
\* render call fail.
C11_FontWaitNonFatal ==
  \A c \in Callers : callers[c].pc = "idle" => callers[c].res # "fonts"

\* C12 (as claimed): while a launch has started and not completed, the instance
\* slot is empty.
C12_NoInstanceWhileLaunching == PendingLaunches # {} => browserInstance = 0

\* C16 (as claimed, for the idle reaper): no idle callback is closing a browser on
\* which an in-flight render call holds an open page.
C16_InstanceOpenDuringRender ==
  \A c \in Callers :
    (callers[c].ctx = "open" /\ callers[c].browser # 0) => reapers[callers[c].browser] = 0

\* C17: a getBrowserInstance call made while an instance is held and connected starts
\* no launch, returns that instance at once, and leaves exactly one idle timer
\* armed, the one it armed itself.
C17_FastPathRearms ==
  [][\A c \in Callers :
       (callers[c].pc = "fetch" /\ callers'[c].pc # "fetch" /\ callers'[c].res # "fetch"
          /\ InstanceConnected)
         => /\ UNCHANGED <<launch, browserLaunchPromise, browserInstance>>
            /\ callers'[c].pc = "acquired"
            /\ callers'[c].browser = browserInstance
            /\ browserIdleTimeout' = "live"
            /\ timers' = 1]_vars

\* a call took the fast path after the timer armed by the launch had fired: the only
\* launch there was is held and connected, and a timer is armed again
C17_Witness ==
  \E c \in Callers :
    /\ callers[c].pc = "acquired" /\ callers[c].joined = 0
    /\ callers[c].browser = browserInstance
    /\ reapers[browserInstance] = 1
    /\ browserIdleTimeout = "live" /\ timers = 1
    /\ NextLaunch = 2

\* C18: at most one idle timer is armed at any time.
C18_OneIdleTimer == timers <= 1

\* the fast path rearmed the timer while the one armed by the launch was still armed
C18_Witness ==
  \E c \in Callers :
    /\ callers[c].pc = "acquired" /\ callers[c].joined = 0
    /\ timers = 1
    /\ \A b \in Launches : reapers[b] = 0 /\ browser[b].status \in {"none", "open"}
    /\ shutdownPc = 0 /\ destroyed = {} /\ ~quiet

\* C19: when the idle callback resumes from a close() that threw (the browser has
\* not exited), the instance slot is cleared and no caller is affected.
C19_IdleCloseFailureClearsSlot ==
  [][\A b \in Launches :
       (reapers'[b] < reapers[b] /\ browser[b].status \notin {"closed", "crashed"})
         => (browserInstance' = 0 /\ ~InstanceConnected' /\ callers' = callers)]_vars

\* the idle callback ended on a close() that threw: the browser is still closing,
\* nothing awaits its close(), onModuleDestroy took no part, and the slot is empty
C19_Witness ==
  \E b \in Launches :
    /\ browser[b].status = "closing"
    /\ reapers[b] = 0
    /\ shutdownPc = 0 /\ destroyed = {}
    /\ browserInstance = 0

\* C20: a call whose upstream fetch fails ends without touching the pool: no launch
\* is started, no page is opened, the idle timer is left as it was.
C20_FetchFailureLeavesPool ==
  [][\A c \in Callers :
       (callers[c].pc = "fetch" /\ callers'[c].res = "fetch")
         => (UNCHANGED poolVars /\ callers'[c].ctx = "none" /\ callers'[c].pc = "idle")]_vars

\* a fetch failed while the pool held a browser with its idle timer armed
C20_Witness ==
  \E c \in Callers :
    /\ callers[c].pc = "idle" /\ callers[c].res = "fetch"
    /\ InstanceConnected
    /\ timers = 1

\* C13: the HTML preprocessing is idempotent: applied twice to a fetched document,
\* it gives what one application gives.
C13_PreprocessIdempotent == passes >= 2 => htmlContent = Preprocess(input)

\* a document with no tag, no charset and no font marker was preprocessed twice:
\* the first application wrapped it, the second left it as it was
C13_Witness ==
  /\ passes >= 2
  /\ Len(input) > 0
  /\ \A needle \in Pieces \ {"text"} : ~includes(input, needle)
  /\ Len(htmlContent) = Len(input) + 8

\* C14 (as claimed): the output of the HTML preprocessing always holds a charset
\* declaration.
C14_CharsetAlwaysDeclared == passes >= 1 => includes(htmlContent, "charset")

\* C15 (as claimed): every render call that has started eventually returns or
\* fails.
C15_RenderCallEnds ==
  \A c \in Callers : (callers[c].pc # "idle") ~> (callers[c].pc = "idle")

\* C21 (as claimed): getBrowserInstance never hands a caller a browser on which
\* close() has been called and has not finished.
C21_NeverReturnsClosingInstance ==
  [][\A c \in Callers :
       (callers[c].pc # "acquired" /\ callers'[c].pc = "acquired")
         => browser[callers'[c].browser].status # "closing"]_vars

\* C22 (as claimed): every launched browser on which close() was never called is
\* the one in the instance slot, or the one its launching caller is about to
\* store there.
C22_NoOrphanInstance ==
  \A b \in Launches :
    browser[b].status = "open"
      => \/ browserInstance = b
         \/ \E c \in Callers : callers[c].pc = "awaitLaunch" /\ callers[c].joined = b

====
